---- MODULE Spec2Model ----
(***************************************************************************)
(* Model of test_log_collector (src/src/lib.rs): TestLogCollector, a       *)
(* line-buffering io::Write sink with the two fields `lines` and           *)
(* `current_line`.  Bytes are naturals 0..255, characters are Unicode      *)
(* scalar values, a String is a sequence of characters.                    *)
(***************************************************************************)
EXTENDS Integers, Sequences, FiniteSets, TLC

VARIABLES
    lines,          \* self.lines: Vec<String>
    current_line,   \* self.current_line: String
    op,             \* history: the last operation called on the sink
    ret,            \* history: what that operation returned
    nbytes,         \* history: buf.len() of the argument of the last write
    nl,             \* history: '\n' bytes handed to write since the last clear (or creation)
    fl,             \* history: flush calls since the last clear that found a non-empty current_line
    written,        \* history: text handed to write since the last clear (or creation), kept while noFlush
    noFlush,        \* history: flush was not called since the last clear (or creation)
    cleared,        \* history: clear was called since creation
    partialAtClear, \* history: the last clear found a non-empty current_line
    pc,             \* the caller: "run" (any calls), "snap", "shared", or its position in a scenario
    in0,            \* scenario input: text written first, to give the sink completed lines
    in1,            \* scenario input: the text s1
    in2,            \* scenario input: the text s2
    start,          \* scenario: the completed lines before s1 is written
    bufs,           \* byte scenario input: the buffers <<prefill, a, b>>
    snapRef,        \* where the Vec the caller got from clone_lines() lives: "none", "own", "sink"
    snapVec,        \* the caller's own Vec<String> (when snapRef = "own")
    snapTaken,      \* history: what the caller's Vec must hold (copy taken, then the caller's own changes)
    owner,          \* the Mutex of new_shared(): the thread holding the guard, or NoOwner
    tpc,            \* per thread: "idle", "locked" (guard taken), "mid" (message written), "held" (operation done)
    todo,           \* per thread: the messages it still has to write
    extra           \* flush/clear/count calls made so far by the threads

hist  == <<op, ret, nbytes, nl, fl, written, noFlush, cleared, partialAtClear>>
scen  == <<pc, in0, in1, in2, start>>
snapv == <<snapRef, snapVec, snapTaken>>
shared == <<owner, tpc, todo, extra>>
vars  == <<lines, current_line, op, ret, nbytes, nl, fl, written, noFlush, cleared,
           partialAtClear, pc, in0, in1, in2, start, bufs, snapRef, snapVec, snapTaken,
           owner, tpc, todo, extra>>

-----------------------------------------------------------------------------
(* Bounds *)
MaxBuf  == 3     \* longest byte buffer handed to one write call
MaxSize == 3     \* characters and completed lines a sink may hold before write is no longer called
MaxText == 2     \* longest text s1, s2 of the two-write scenario
MaxSnapSize == 1 \* as MaxSize, while the caller keeps a Vec from clone_lines()
MaxPart == 2     \* longest byte buffer a, b of the byte scenario
MaxExtra == 1    \* flush/clear/count calls the threads make beside their messages
MaxMsgs == 2     \* messages every thread writes

(* Alphabets: '\n', '\r', 'a', the two bytes of U+00E9 (0xC3 0xA9); each of *)
(* the last two alone is an invalid UTF-8 sequence.                         *)
NEWLINE == 10
Bytes == {10, 13, 97, 195, 169}
Chars == {10, 97, 233, 8364}
CARRIAGE_RETURN == 13
REPLACEMENT_CHARACTER == 65533

RECURSIVE SeqsUpTo(_, _)
SeqsUpTo(S, n) ==
    IF n = 0 THEN {<<>>}
    ELSE LET shorter == SeqsUpTo(S, n - 1)
         IN  shorter \cup {Append(s, x) : s \in {t \in shorter : Len(t) = n - 1}, x \in S}

Tail_(s, k) == SubSeq(s, k + 1, Len(s))

-----------------------------------------------------------------------------
(* String::from_utf8_lossy: every maximal invalid part of the buffer becomes *)
(* one U+FFFD, every valid sequence becomes its scalar value.                *)
IsCont(b) == b >= 128 /\ b <= 191

utf8_char_width(b) ==
    IF b < 128 THEN 1
    ELSE IF b >= 194 /\ b <= 223 THEN 2
    ELSE IF b >= 224 /\ b <= 239 THEN 3
    ELSE IF b >= 240 /\ b <= 244 THEN 4
    ELSE 0

SecondOk(b0, b1) ==
    IF b0 = 224 THEN b1 >= 160 /\ b1 <= 191
    ELSE IF b0 = 237 THEN b1 >= 128 /\ b1 <= 159
    ELSE IF b0 = 240 THEN b1 >= 144 /\ b1 <= 191
    ELSE IF b0 = 244 THEN b1 >= 128 /\ b1 <= 143
    ELSE IsCont(b1)

next_chunk(buf) ==
    LET b0 == buf[1]
        w  == utf8_char_width(b0)
        n  == Len(buf)
        bad(k) == [len |-> k, ch |-> REPLACEMENT_CHARACTER]
    IN  IF w = 1 THEN [len |-> 1, ch |-> b0]
        ELSE IF w = 0 THEN bad(1)
        ELSE IF w = 2 THEN
            IF n >= 2 /\ IsCont(buf[2])
            THEN [len |-> 2, ch |-> (b0 % 32) * 64 + (buf[2] % 64)]
            ELSE bad(1)
        ELSE IF n < 2 \/ ~SecondOk(b0, buf[2]) THEN bad(1)
        ELSE IF n < 3 \/ ~IsCont(buf[3]) THEN bad(2)
        ELSE IF w = 3 THEN
            [len |-> 3, ch |-> (b0 % 16) * 4096 + (buf[2] % 64) * 64 + (buf[3] % 64)]
        ELSE IF n < 4 \/ ~IsCont(buf[4]) THEN bad(3)
        ELSE [len |-> 4, ch |-> (b0 % 8) * 262144 + (buf[2] % 64) * 4096
                                + (buf[3] % 64) * 64 + (buf[4] % 64)]

(* Variant: every byte taken as one character (no UTF-8 decoding). *)
from_bytes_as_chars(buf) == buf

RECURSIVE from_utf8_lossy(_)
from_utf8_lossy(buf) ==
    IF buf = <<>> THEN <<>>
    ELSE LET c == next_chunk(buf)
         IN  <<c.ch>> \o from_utf8_lossy(Tail_(buf, c.len))

(* The UTF-8 bytes of a text, as write!/writeln! and byte literals hand them to write. *)
encode_utf8(c) ==
    IF c < 128 THEN <<c>>
    ELSE IF c < 2048 THEN <<192 + (c \div 64), 128 + (c % 64)>>
    ELSE IF c < 65536 THEN <<224 + (c \div 4096), 128 + ((c \div 64) % 64), 128 + (c % 64)>>
    ELSE <<240 + (c \div 262144), 128 + ((c \div 4096) % 64),
           128 + ((c \div 64) % 64), 128 + (c % 64)>>

RECURSIVE as_bytes(_)
as_bytes(s) ==
    IF s = <<>> THEN <<>> ELSE encode_utf8(Head(s)) \o as_bytes(Tail(s))

-----------------------------------------------------------------------------
(* The operations of TestLogCollector as functions of the object.  *)
Ok(v) == [tag |-> "Ok", val |-> v]
Unit  == "()"

new == [lines |-> <<>>, current_line |-> <<>>]

(* Variant: clear that leaves current_line alone. *)
clear_lines_only(self) == [lines |-> <<>>, current_line |-> self.current_line]

(* Variant: clear that leaves the completed lines alone. *)
clear_pending_only(self) == [lines |-> self.lines, current_line |-> <<>>]

clear(self) == [lines |-> <<>>, current_line |-> <<>>]

(* Variant: count that also counts a non-empty current_line. *)
count_with_pending(self) ==
    Len(self.lines) + (IF self.current_line # <<>> THEN 1 ELSE 0)

count(self) == Len(self.lines)

(* Variant: lines() without the last completed line. *)
lines_but_last(self) == SubSeq(self.lines, 1, Len(self.lines) - 1)

lines_(self) == self.lines

clone_lines(self) == self.lines

(* Where the Vec returned by clone_lines() lives: a clone is a new Vec of the *)
(* caller ("own"); the variant hands out the Vec of the sink itself.          *)
clone_lines_place_alias == "sink"

clone_lines_place == "own"

(* Variants of the loop body: current_line not cleared at '\n'; the character *)
(* pushed before the test for '\n'; the line inserted at the front.          *)
write_char_keep(self, ch) ==
    IF ch = NEWLINE
    THEN [lines |-> Append(self.lines, self.current_line), current_line |-> self.current_line]
    ELSE [lines |-> self.lines, current_line |-> Append(self.current_line, ch)]

write_char_push_first(self, ch) ==
    IF ch = NEWLINE
    THEN [lines |-> Append(self.lines, Append(self.current_line, ch)), current_line |-> <<>>]
    ELSE [lines |-> self.lines, current_line |-> Append(self.current_line, ch)]

write_char_front(self, ch) ==
    IF ch = NEWLINE
    THEN [lines |-> <<self.current_line>> \o self.lines, current_line |-> <<>>]
    ELSE [lines |-> self.lines, current_line |-> Append(self.current_line, ch)]

(* Further variants: an empty current_line not recorded at '\n'; a '\r' at *)
(* the end of current_line dropped at '\n'.                               *)
write_char_skip_empty(self, ch) ==
    IF ch = NEWLINE
    THEN [lines |-> IF self.current_line # <<>>
                    THEN Append(self.lines, self.current_line)
                    ELSE self.lines,
          current_line |-> <<>>]
    ELSE [lines |-> self.lines, current_line |-> Append(self.current_line, ch)]

write_char_strip_cr(self, ch) ==
    IF ch = NEWLINE
    THEN LET n == Len(self.current_line)
             l == IF n > 0 /\ self.current_line[n] = CARRIAGE_RETURN
                  THEN SubSeq(self.current_line, 1, n - 1)
                  ELSE self.current_line
         IN  [lines |-> Append(self.lines, l), current_line |-> <<>>]
    ELSE [lines |-> self.lines, current_line |-> Append(self.current_line, ch)]

(* One iteration of the loop of write: the character ch. *)
write_char(self, ch) ==
    IF ch = NEWLINE
    THEN [lines |-> Append(self.lines, self.current_line), current_line |-> <<>>]
    ELSE [lines |-> self.lines, current_line |-> Append(self.current_line, ch)]

RECURSIVE write_chars(_, _)
write_chars(self, s) ==
    IF s = <<>> THEN self
    ELSE write_chars(write_char(self, Head(s)), Tail(s))

(* Variant: the number of decoded characters as the result. *)
write_result_chars(buf) == Ok(Len(from_utf8_lossy(buf)))

write_result(buf) == Ok(Len(buf))

(* Variant: every call starts with an empty line buffer of its own. *)
write_fresh(self, buf) ==
    [self |-> write_chars([lines |-> self.lines, current_line |-> <<>>], from_utf8_lossy(buf)),
     ret  |-> write_result(buf)]

write(self, buf) ==
    [self |-> write_chars(self, from_utf8_lossy(buf)), ret |-> write_result(buf)]

(* Variants of flush: without the is_empty test; without current_line.clear(). *)
flush_always(self) ==
    [self |-> [lines |-> Append(self.lines, self.current_line), current_line |-> <<>>],
     ret  |-> Ok(Unit)]

flush_no_clear(self) ==
    [self |-> IF self.current_line # <<>>
              THEN [lines |-> Append(self.lines, self.current_line),
                    current_line |-> self.current_line]
              ELSE self,
     ret  |-> Ok(Unit)]

flush(self) ==
    [self |-> IF self.current_line # <<>>
              THEN [lines |-> Append(self.lines, self.current_line), current_line |-> <<>>]
              ELSE self,
     ret  |-> Ok(Unit)]

-----------------------------------------------------------------------------
(* State machine of one sink. *)
this == [lines |-> lines, current_line |-> current_line]

RECURSIVE SumLen(_)
SumLen(ls) == IF ls = <<>> THEN 0 ELSE Len(Head(ls)) + SumLen(Tail(ls))

Size(self) == Len(self.lines) + SumLen(self.lines) + Len(self.current_line)

RECURSIVE Occurrences(_, _)
Occurrences(x, s) ==
    IF s = <<>> THEN 0
    ELSE (IF Head(s) = x THEN 1 ELSE 0) + Occurrences(x, Tail(s))

Buffers == SeqsUpTo(Bytes, MaxBuf)
Texts   == SeqsUpTo(Chars, MaxText)
Prefills == {<<>>, <<97, 10>>, <<10, 97, 233, 10>>}

InitSink ==
    /\ lines = new.lines
    /\ current_line = new.current_line
    /\ op = "new"
    /\ ret = Unit
    /\ nbytes = 0
    /\ nl = 0
    /\ fl = 0
    /\ written = <<>>
    /\ noFlush = TRUE
    /\ cleared = FALSE
    /\ partialAtClear = FALSE

Threads == {"t1", "t2"}
NoOwner == "none"

NoScen ==
    /\ in0 = <<>>
    /\ in1 = <<>>
    /\ in2 = <<>>
    /\ start = <<>>

NoBufs == bufs = <<>>

NoSnap ==
    /\ snapRef = "none"
    /\ snapVec = <<>>
    /\ snapTaken = <<>>

NoShared ==
    /\ owner = NoOwner
    /\ tpc = [t \in Threads |-> "idle"]
    /\ todo = [t \in Threads |-> <<>>]
    /\ extra = 0

Init ==
    /\ InitSink
    /\ pc = "run"
    /\ NoScen
    /\ NoBufs
    /\ NoSnap
    /\ NoShared

WriteOp(buf) ==
    LET r == write(this, buf)
    IN  /\ lines' = r.self.lines
        /\ current_line' = r.self.current_line
        /\ op' = "write"
        /\ ret' = r.ret
        /\ nbytes' = Len(buf)
        /\ nl' = nl + Occurrences(NEWLINE, buf)
        /\ written' = IF noFlush THEN written \o from_utf8_lossy(buf) ELSE written
        /\ UNCHANGED <<fl, noFlush, cleared, partialAtClear>>

(* write is called while the sink holds at most MaxSize characters and lines *)
(* after it: every decoded character adds one character or one line.        *)
BuffersByDecodedLen ==
    [k \in 0..MaxBuf |-> {buf \in Buffers : Len(from_utf8_lossy(buf)) = k}]

Write ==
    /\ pc \in {"run", "snap"}
    /\ LET room == (IF pc = "snap" THEN MaxSnapSize ELSE MaxSize) - Size(this)
       IN  \E k \in 0..MaxBuf :
               /\ k <= room
               /\ \E buf \in BuffersByDecodedLen[k] : WriteOp(buf)
    /\ UNCHANGED <<scen, bufs, snapv, shared>>

FlushOp ==
    /\ LET r == flush(this)
       IN  /\ lines' = r.self.lines
           /\ current_line' = r.self.current_line
           /\ ret' = r.ret
    /\ op' = "flush"
    /\ fl' = IF current_line # <<>> THEN fl + 1 ELSE fl
    /\ noFlush' = FALSE
    /\ written' = <<>>
    /\ UNCHANGED <<nbytes, nl, cleared, partialAtClear>>

Flush ==
    /\ pc \in {"run", "snap"}
    /\ FlushOp
    /\ UNCHANGED <<scen, bufs, snapv, shared>>

ClearOp ==
    /\ LET r == clear(this)
       IN  /\ lines' = r.lines
           /\ current_line' = r.current_line
    /\ op' = "clear"
    /\ ret' = Unit
    /\ nl' = 0
    /\ fl' = 0
    /\ noFlush' = TRUE
    /\ written' = <<>>
    /\ cleared' = TRUE
    /\ partialAtClear' = (current_line # <<>>)
    /\ UNCHANGED nbytes

Clear ==
    /\ pc \in {"run", "snap"}
    /\ ClearOp
    /\ UNCHANGED <<scen, bufs, snapv, shared>>

(* The read operations take &self: they return a value and assign nothing. *)
ReadOp(name, value) ==
    /\ op' = name
    /\ ret' = value
    /\ UNCHANGED <<lines, current_line, nbytes, nl, fl, written, noFlush, cleared, partialAtClear>>

Count ==
    /\ pc \in {"run", "snap"}
    /\ ReadOp("count", count(this))
    /\ UNCHANGED <<scen, bufs, snapv, shared>>

Lines ==
    /\ pc \in {"run", "snap"}
    /\ ReadOp("lines", lines_(this))
    /\ UNCHANGED <<scen, bufs, snapv, shared>>

(* clone_lines(): self.lines.clone() is a new Vec owned by the caller; the *)
(* caller of the snapshot scenario keeps it.                              *)
CloneLines ==
    /\ pc \in {"run", "snap"}
    /\ ReadOp("clone_lines", clone_lines(this))
    /\ IF pc = "snap"
       THEN /\ snapRef' = clone_lines_place
            /\ snapVec' = IF clone_lines_place = "own" THEN clone_lines(this) ELSE <<>>
            /\ snapTaken' = clone_lines(this)
       ELSE UNCHANGED snapv
    /\ UNCHANGED <<scen, bufs, shared>>

Next == Write \/ Flush \/ Clear \/ Count \/ Lines \/ CloneLines

Spec == Init /\ [][Next]_vars

-----------------------------------------------------------------------------
(* The two-write scenario on one sink: the caller writes in0 (whole lines), *)
(* then s1, then s2 followed by '\n'; or s2 followed by '\n' at once.       *)
ScenInit ==
    /\ InitSink
    /\ NoBufs
    /\ NoSnap
    /\ NoShared
    /\ pc = "s0"
    /\ in0 \in Prefills
    /\ in1 \in Texts
    /\ in2 \in Texts
    /\ start = <<>>

ScenPrefill ==
    /\ pc = "s0"
    /\ WriteOp(as_bytes(in0))
    /\ pc' = "s1"
    /\ UNCHANGED <<in0, in1, in2, start, bufs, snapv, shared>>

ScenFirst ==
    /\ pc = "s1"
    /\ WriteOp(as_bytes(in1))
    /\ pc' = "s2"
    /\ start' = lines
    /\ UNCHANGED <<in0, in1, in2, bufs, snapv, shared>>

ScenSecond ==
    /\ pc = "s2"
    /\ WriteOp(as_bytes(in2 \o <<NEWLINE>>))
    /\ pc' = "done"
    /\ UNCHANGED <<in0, in1, in2, start, bufs, snapv, shared>>

ScenSingle ==
    /\ pc = "s0"
    /\ WriteOp(as_bytes(in2 \o <<NEWLINE>>))
    /\ pc' = "one"
    /\ UNCHANGED <<in0, in1, in2, start, bufs, snapv, shared>>

ScenNext == ScenPrefill \/ ScenFirst \/ ScenSecond \/ ScenSingle

ScenSpec == ScenInit /\ [][ScenNext]_vars

-----------------------------------------------------------------------------
(* The snapshot scenario: beside calling the sink, the caller keeps the Vec *)
(* it got from clone_lines() and changes it (push, pop, clear).             *)
SnapView == IF snapRef = "sink" THEN lines ELSE snapVec

MutatedVec(v, kind) ==
    CASE kind = "push"  -> Append(v, <<97>>)
      [] kind = "pop"   -> SubSeq(v, 1, Len(v) - 1)
      [] kind = "clear" -> <<>>

MutateSnapshot ==
    /\ pc = "snap"
    /\ snapRef # "none"
    /\ \E kind \in {"push", "pop", "clear"} :
        /\ kind = "push" => Len(snapTaken) < MaxSnapSize
        /\ kind = "pop" => snapTaken # <<>>
        /\ snapTaken' = MutatedVec(snapTaken, kind)
        /\ IF snapRef = "own"
           THEN snapVec' = MutatedVec(snapVec, kind) /\ UNCHANGED lines
           ELSE lines' = MutatedVec(lines, kind) /\ UNCHANGED snapVec
    /\ op' = "mutate_copy"
    /\ ret' = Unit
    /\ UNCHANGED <<current_line, nbytes, nl, fl, written, noFlush, cleared, partialAtClear>>
    /\ UNCHANGED <<snapRef, scen, bufs, shared>>

SnapInit ==
    /\ InitSink
    /\ pc = "snap"
    /\ NoScen
    /\ NoBufs
    /\ NoSnap
    /\ NoShared

SnapNext == Write \/ Flush \/ Clear \/ Count \/ Lines \/ CloneLines \/ MutateSnapshot

SnapSpec == SnapInit /\ [][SnapNext]_vars

-----------------------------------------------------------------------------
(* The shared sink of new_shared(): Arc<Mutex<TestLogCollector>>.  A thread *)
(* takes the guard with lock(), calls the sink through it (writeln! of its  *)
(* next message: write(message) then write("\n"); or flush, clear, count)   *)
(* and drops the guard.                                                     *)

(* Variant: a lock that is granted whoever holds it. *)
can_lock_always(m) == TRUE

(* Mutex::lock returns once no other thread holds the guard. *)
can_lock(m) == m = NoOwner

(* The i-th message of a thread: i times the character of the thread. *)
ThreadChar(t) == IF t = "t1" THEN 97 ELSE 233
Script == [t \in Threads |-> [i \in 1..MaxMsgs |-> [j \in 1..i |-> ThreadChar(t)]]]

ShareInit ==
    /\ InitSink
    /\ pc = "shared"
    /\ NoScen
    /\ NoBufs
    /\ NoSnap
    /\ owner = NoOwner
    /\ tpc = [t \in Threads |-> "idle"]
    /\ todo = Script
    /\ extra = 0

TLock(t) ==
    /\ pc = "shared"
    /\ tpc[t] = "idle"
    /\ can_lock(owner)
    /\ owner' = t
    /\ tpc' = [tpc EXCEPT ![t] = "locked"]
    /\ UNCHANGED <<lines, current_line, hist, scen, bufs, snapv, todo, extra>>

TWriteMsg(t) ==
    /\ pc = "shared"
    /\ tpc[t] = "locked"
    /\ todo[t] # <<>>
    /\ WriteOp(as_bytes(Head(todo[t])))
    /\ tpc' = [tpc EXCEPT ![t] = "mid"]
    /\ UNCHANGED <<scen, bufs, snapv, owner, todo, extra>>

TWriteNewline(t) ==
    /\ pc = "shared"
    /\ tpc[t] = "mid"
    /\ WriteOp(<<NEWLINE>>)
    /\ todo' = [todo EXCEPT ![t] = Tail(todo[t])]
    /\ tpc' = [tpc EXCEPT ![t] = "held"]
    /\ UNCHANGED <<scen, bufs, snapv, owner, extra>>

TFlush(t) ==
    /\ pc = "shared"
    /\ tpc[t] = "locked"
    /\ extra < MaxExtra
    /\ FlushOp
    /\ extra' = extra + 1
    /\ tpc' = [tpc EXCEPT ![t] = "held"]
    /\ UNCHANGED <<scen, bufs, snapv, owner, todo>>

TClear(t) ==
    /\ pc = "shared"
    /\ tpc[t] = "locked"
    /\ extra < MaxExtra
    /\ ClearOp
    /\ extra' = extra + 1
    /\ tpc' = [tpc EXCEPT ![t] = "held"]
    /\ UNCHANGED <<scen, bufs, snapv, owner, todo>>

TCount(t) ==
    /\ pc = "shared"
    /\ tpc[t] = "locked"
    /\ extra < MaxExtra
    /\ ReadOp("count", count(this))
    /\ extra' = extra + 1
    /\ tpc' = [tpc EXCEPT ![t] = "held"]
    /\ UNCHANGED <<scen, bufs, snapv, owner, todo>>

TUnlock(t) ==
    /\ pc = "shared"
    /\ tpc[t] \in {"locked", "held"}
    /\ owner' = NoOwner
    /\ tpc' = [tpc EXCEPT ![t] = "idle"]
    /\ UNCHANGED <<lines, current_line, hist, scen, bufs, snapv, todo, extra>>

ShareNext ==
    \E t \in Threads :
        \/ TLock(t)
        \/ TWriteMsg(t)
        \/ TWriteNewline(t)
        \/ TFlush(t)
        \/ TClear(t)
        \/ TCount(t)
        \/ TUnlock(t)

ShareSpec == ShareInit /\ [][ShareNext]_vars

-----------------------------------------------------------------------------
(* The byte scenario: the caller hands the bytes of bufs[1] to write, then *)
(* the buffer a = bufs[2], then the buffer b = bufs[3], as raw bytes.       *)
Parts == SeqsUpTo(Bytes, MaxPart)
PairPrefills == {<<>>, <<97>>, <<97, 10, 195>>}

PairInit ==
    /\ InitSink
    /\ pc = "p0"
    /\ NoScen
    /\ bufs \in {<<p, a, b>> : p \in PairPrefills, a \in Parts, b \in Parts}
    /\ NoSnap
    /\ NoShared

PairPrefill ==
    /\ pc = "p0"
    /\ WriteOp(bufs[1])
    /\ pc' = "p1"
    /\ UNCHANGED <<in0, in1, in2, start, bufs, snapv, shared>>

PairFirst ==
    /\ pc = "p1"
    /\ WriteOp(bufs[2])
    /\ pc' = "p2"
    /\ UNCHANGED <<in0, in1, in2, start, bufs, snapv, shared>>

PairSecond ==
    /\ pc = "p2"
    /\ WriteOp(bufs[3])
    /\ pc' = "pdone"
    /\ UNCHANGED <<in0, in1, in2, start, bufs, snapv, shared>>

PairNext == PairPrefill \/ PairFirst \/ PairSecond

PairSpec == PairInit /\ [][PairNext]_vars

-----------------------------------------------------------------------------
(* Vocabulary of the properties. *)
HasNewline(s) == \E i \in 1..Len(s) : s[i] = NEWLINE

FirstNewline(s) == CHOOSE i \in 1..Len(s) : s[i] = NEWLINE /\ \A j \in 1..(i - 1) : s[j] # NEWLINE

(* The segments of a text split at every '\n'. *)
RECURSIVE Split(_)
Split(s) ==
    IF ~HasNewline(s) THEN <<s>>
    ELSE LET i == FirstNewline(s)
         IN  <<SubSeq(s, 1, i - 1)>> \o Split(Tail_(s, i))

IsPrefix(s, t) == Len(s) <= Len(t) /\ SubSeq(t, 1, Len(s)) = s

-----------------------------------------------------------------------------
\* C1: after only write calls on a newly created sink, the completed lines
\* followed by the pending fragment are the segments of the written text T
\* split at every '\n'.
C1_WritesSplitText ==
    (~cleared /\ noFlush) => lines \o <<current_line>> = Split(written)

C1_Witness ==
    /\ ~cleared /\ noFlush /\ op = "write"
    /\ Len(lines) = 2 /\ current_line # <<>>
    /\ nbytes = 1

\* C2 (as stated): in every reachable state count() equals the number of '\n'
\* processed by write since the last clear (or creation).
C2_CountIsNewlines == count(this) = nl

\* C2 (amended): count() equals that number exactly when no flush since the
\* last clear found a non-empty pending fragment, and exceeds it otherwise.
C2_CountIsNewlinesUnlessFlushed ==
    /\ fl = 0 => count(this) = nl
    /\ fl > 0 => count(this) > nl

C2_Witness ==
    /\ fl = 0 /\ ~noFlush /\ nl = 2 /\ count(this) = 2 /\ current_line # <<>>

\* C3: in every reachable state neither the pending fragment nor any
\* completed line contains '\n'.
C3_NoNewlineStored ==
    /\ ~HasNewline(current_line)
    /\ \A i \in 1..Len(lines) : ~HasNewline(lines[i])

C3_Witness ==
    /\ op = "write" /\ nl > 0 /\ nbytes > 1
    /\ lines # <<>> /\ lines[Len(lines)] # <<>> /\ current_line # <<>>

\* C4 (as stated): for all texts s1, s2, on a sink with an empty pending
\* fragment, write(s1) then write(s2 + "\n") yields one completed line equal
\* to s1 + s2.
C4_SplitInvisible ==
    pc = "done" => lines = Append(start, in1 \o in2)

\* C4 (amended): the same for all texts s1, s2 that contain no '\n'.
C4_SplitInvisibleNoNewline ==
    (pc = "done" /\ ~HasNewline(in1) /\ ~HasNewline(in2))
        => lines = Append(start, in1 \o in2)

C4_Witness ==
    /\ pc = "done" /\ start # <<>>
    /\ in1 # <<>> /\ in2 # <<>> /\ ~HasNewline(in1) /\ ~HasNewline(in2)
    /\ lines[Len(lines)] = in1 \o in2

\* C5: flush() with a non-empty pending fragment p appends exactly p as the
\* last completed line, adds 1 to count() and empties the pending fragment;
\* with an empty pending fragment it leaves lines and count() unchanged; it
\* reports success in both cases.
C5_Flush ==
    [][op' = "flush" =>
        /\ ret' = Ok(Unit)
        /\ current_line' = <<>>
        /\ IF current_line # <<>>
           THEN /\ lines' = Append(lines, current_line)
                /\ count(this)' = count(this) + 1
           ELSE /\ lines' = lines
                /\ count(this)' = count(this)]_vars

C5_Witness ==
    /\ op = "flush" /\ ret = Ok(Unit) /\ fl = 1 /\ nl = 1
    /\ Len(lines) = 2 /\ lines[2] # <<>> /\ current_line = <<>>

\* C6: clear() returns the sink to the state of a newly created sink, and a
\* partial line written before clear() is in no line completed after it: the
\* lines and the pending fragment are the split of the text written since.
C6_ClearResets ==
    /\ op = "clear" =>
        /\ this = new
        /\ count(this) = 0
        /\ clone_lines(this) = <<>>
    /\ (cleared /\ noFlush) => lines \o <<current_line>> = Split(written)

C6_Witness ==
    /\ cleared /\ partialAtClear /\ noFlush /\ op = "write"
    /\ lines # <<>> /\ lines[1] # <<>>

\* C7: write(buf) returns success with the value len(buf) for every buffer
\* and every sink state, also when the number of decoded characters differs.
C7_WriteReturnsLen ==
    op = "write" => ret = Ok(nbytes)

C7_Witness ==
    /\ op = "write" /\ ret = Ok(3)
    /\ ~cleared /\ noFlush
    /\ written = <<REPLACEMENT_CHARACTER, 233>>

\* C8: writes without '\n' on a sink with count() = 0 keep count() at 0,
\* whatever the length of the pending fragment; count() leaves 0 only at a
\* flush() or at a write that contains a terminator.
C8_CountStaysZero ==
    /\ [][(count(this) = 0 /\ op' = "write" /\ nl' = nl) => count(this)' = 0]_vars
    /\ [][(count(this) = 0 /\ count(this)' # 0) =>
            (op' = "flush" \/ (op' = "write" /\ nl' > nl))]_vars

C8_Witness ==
    /\ count(this) = 0 /\ op = "write" /\ nl = 0 /\ fl = 0
    /\ Len(current_line) >= 3 /\ nbytes = 1

\* C9: for every write or flush step the completed lines before the step are
\* a prefix of those after it; only clear() removes entries.
C9_AppendOnly ==
    /\ [][op' \in {"write", "flush"} => IsPrefix(lines, lines')]_vars
    /\ [][~IsPrefix(lines, lines') => op' = "clear"]_vars

C9_Witness ==
    /\ op = "flush" /\ fl = 1 /\ nl = 2 /\ Len(lines) = 3

\* C10: on a newly created sink, for every text s without terminator,
\* write(s + "\n") gives count() = 1 and clone_lines() = [s].
C10_SingleLine ==
    (pc = "one" /\ ~HasNewline(in2)) =>
        /\ count(this) = 1
        /\ clone_lines(this) = <<in2>>

C10_Witness ==
    /\ pc = "one" /\ Len(in2) = 2 /\ ~HasNewline(in2)
    /\ in2[1] > 127
    /\ lines = <<in2>>

\* C11: a write of only k >= 1 terminators on a sink with an empty pending
\* fragment appends exactly k completed lines, each the empty string.
C11_EmptyLines ==
    [][(op' = "write" /\ current_line = <<>> /\ nbytes' >= 1 /\ nl' - nl = nbytes') =>
        /\ lines' = lines \o [i \in 1..nbytes' |-> <<>>]
        /\ current_line' = <<>>]_vars

C11_Witness ==
    /\ op = "write" /\ nbytes = 3 /\ nl = 3
    /\ lines = << <<>>, <<>>, <<>> >> /\ current_line = <<>>

(* The number of x in a sequence of lines. *)
RECURSIVE OccurrencesIn(_, _)
OccurrencesIn(x, ls) ==
    IF ls = <<>> THEN 0 ELSE Occurrences(x, Head(ls)) + OccurrencesIn(x, Tail(ls))

\* C12: only '\n' terminates a line: the completed lines are as many as the
\* '\n' written, every '\r' written is kept, and a '\r' immediately before a
\* '\n' is the last character of the line that '\n' completes.
C12_CarriageReturnKept ==
    noFlush =>
        /\ Len(lines) = Occurrences(NEWLINE, written)
        /\ OccurrencesIn(CARRIAGE_RETURN, lines \o <<current_line>>)
               = Occurrences(CARRIAGE_RETURN, written)
        /\ \A i \in 2..Len(written) :
               (written[i] = NEWLINE /\ written[i - 1] = CARRIAGE_RETURN) =>
                   LET l == lines[Occurrences(NEWLINE, SubSeq(written, 1, i))]
                   IN  l # <<>> /\ l[Len(l)] = CARRIAGE_RETURN

C12_Witness ==
    /\ ~cleared /\ noFlush /\ op = "write" /\ nbytes = 3
    /\ written = <<97, CARRIAGE_RETURN, NEWLINE>>
    /\ lines = << <<97, CARRIAGE_RETURN>> >>

\* C17: in every reachable state count() equals the number of '\n' processed
\* by write since the last clear (or creation) plus the number of flush()
\* calls since then that found a non-empty pending fragment.
C17_CountIsNewlinesPlusFlushes ==
    count(this) = nl + fl

C17_Witness ==
    /\ nl = 1 /\ fl = 1 /\ count(this) = 2 /\ cleared /\ op = "flush"

(* The number of empty strings among completed lines. *)
EmptyLines(ls) == Cardinality({i \in 1..Len(ls) : ls[i] = <<>>})

\* C18: flush() followed by flush() leaves the same state as one flush(), the
\* pending fragment is empty after any flush(), and an empty completed line
\* is produced only by a '\n' processed by write, never by flush().
C18_FlushIdempotent ==
    /\ [](flush(flush(this).self).self = flush(this).self)
    /\ [](op = "flush" => current_line = <<>>)
    /\ [][(op = "flush" /\ op' = "flush") => UNCHANGED <<lines, current_line>>]_vars
    /\ [][op' = "flush" => EmptyLines(lines') = EmptyLines(lines)]_vars
    /\ [][EmptyLines(lines') > EmptyLines(lines) => (op' = "write" /\ nl' > nl)]_vars

C18_Witness ==
    /\ op = "flush" /\ fl = 1 /\ nl = 1
    /\ Len(lines) = 2 /\ lines[1] = <<>> /\ lines[2] # <<>> /\ current_line = <<>>

\* C19: count(), lines(), clone_lines() and a write of an empty buffer leave
\* the completed lines and the pending fragment unchanged; lines() and
\* clone_lines() return the same sequence, whose length is count().
C19_ReadsChangeNothing ==
    /\ [][(op' \in {"count", "lines", "clone_lines"} \/ (op' = "write" /\ nbytes' = 0))
            => UNCHANGED <<lines, current_line>>]_vars
    /\ [](/\ lines_(this) = clone_lines(this)
          /\ Len(lines_(this)) = count(this)
          /\ op = "count" => ret = Len(lines)
          /\ op \in {"lines", "clone_lines"} => ret = lines)

C19_Witness ==
    /\ op = "lines" /\ ret = lines /\ Len(ret) = 2 /\ current_line # <<>>
    /\ nbytes = 0

\* C13: clone_lines() returns the completed lines at the time of the call;
\* changing the returned copy changes nothing in the sink, and write, flush
\* and clear on the sink change nothing in a copy taken earlier.
C13_SnapshotIndependent ==
    /\ [](op = "clone_lines" => (ret = lines /\ snapTaken = lines))
    /\ [](snapRef # "none" => SnapView = snapTaken)
    /\ [][op' = "mutate_copy" =>
            /\ UNCHANGED <<lines, current_line>>
            /\ count(this)' = count(this)
            /\ clone_lines(this)' = clone_lines(this)]_vars
    /\ [][(op' \in {"write", "flush", "clear"} /\ snapRef # "none") => SnapView' = SnapView]_vars

C13_Witness ==
    /\ snapRef = "own" /\ op = "write" /\ cleared
    /\ lines = << <<>> >> /\ snapVec = << <<97>> >>

\* C14: on a sink shared through new_shared() and lock(), at most one thread
\* at a time is inside an operation of the sink, and every operation is a
\* step of the thread that holds the lock, so the operations happen in one
\* sequential order.
C14_MutualExclusion ==
    /\ [](Cardinality({t \in Threads : tpc[t] # "idle"}) <= 1)
    /\ [](\A t \in Threads : tpc[t] # "idle" => owner = t)
    /\ [][owner' = owner =>
            /\ owner # NoOwner
            /\ tpc[owner] # "idle"
            /\ \A u \in Threads \ {owner} : tpc'[u] = tpc[u] /\ todo'[u] = todo[u]]_vars

C14_Witness ==
    /\ owner = "t2" /\ tpc["t2"] = "mid" /\ tpc["t1"] = "idle"
    /\ todo["t1"] # <<>> /\ Len(lines) = 1 /\ current_line # <<>>

AllDone == \A t \in Threads : tpc[t] = "idle" /\ todo[t] = <<>>

LinesOf(t) ==
    LET Mine(l) == \E i \in 1..MaxMsgs : l = Script[t][i]
    IN  SelectSeq(lines, Mine)

\* C15: when every thread writes each message and its '\n' under one lock
\* acquisition, after all threads finish (and no clear) the completed lines
\* are as many as the messages written, every one is a message of one thread,
\* and the messages of each thread are in the order the thread wrote them.
C15_NoLostOrMixedLines ==
    (AllDone /\ ~cleared) =>
        /\ Len(lines) = Cardinality(Threads) * MaxMsgs
        /\ current_line = <<>>
        /\ \A i \in 1..Len(lines) : \E t \in Threads : \E j \in 1..MaxMsgs : lines[i] = Script[t][j]
        /\ \A t \in Threads : LinesOf(t) = Script[t]

C15_Witness ==
    /\ AllDone /\ ~cleared /\ Len(lines) = 4
    /\ lines[1] = Script["t2"][1] /\ lines[2] = Script["t1"][1]
    /\ lines[3] = Script["t2"][2] /\ lines[4] = Script["t1"][2]

\* C16: for all byte buffers a and b and every sink state, write(a) followed
\* by write(b) leaves the sink in the state a single write of a ++ b leaves
\* it in, also when a ends inside a multi-byte UTF-8 character.
C16_SplitAnywhere ==
    pc = "pdone" =>
        this = write(write(new, bufs[1]).self, bufs[2] \o bufs[3]).self

====
